---- MODULE Spec2Model ----
(***************************************************************************)
(* Model of python3/cloudwatch/src/lambda_function.py: the CloudWatch      *)
(* subscription handler that decodes an awslogs envelope, normalizes each  *)
(* log event, filters noise, flattens the record and hands it to the       *)
(* LogzioShipper.                                                          *)
(*                                                                         *)
(* Python values are tagged records [t, s, f]: t is the Python type, s the *)
(* text of a scalar, f the items of a container.  A Python dict is the     *)
(* sequence of its <<key, value>> items in insertion order.                *)
(***************************************************************************)
EXTENDS Integers, Sequences, FiniteSets, TLC

VARIABLES
    pc,               \* where lambda_handler (or a function called alone) stands
    event,            \* the event argument: event['awslogs']['data']
    context,          \* the context argument
    environ,          \* os.environ
    aws_logs_data,    \* the decoded payload; its log events change in place
    additional_data,  \* the metadata built once for the batch
    shipper,          \* the calls the LogzioShipper has received, in order
    idx,              \* the position of the for loop in logEvents
    returned,         \* what _parse_cloudwatch_log returned, entry by entry
    raised,           \* the exception that left lambda_handler, "" if none
    arg,              \* the argument of a function called alone
    ret               \* and its result

vars == <<pc, event, context, environ, aws_logs_data, additional_data,
          shipper, idx, returned, raised, arg, ret>>

---------------------------------------------------------------------------
(* Python values *)

Str(s) == [t |-> "str", s |-> s, f |-> <<>>]
Num(s) == [t |-> "num", s |-> s, f |-> <<>>]
Bool(s) == [t |-> "bool", s |-> s, f |-> <<>>]
None == [t |-> "null", s |-> "null", f |-> <<>>]
Dict(items) == [t |-> "dict", s |-> "", f |-> items]
List(elems) == [t |-> "list", s |-> "", f |-> [i \in DOMAIN elems |-> <<"", elems[i]>>]]

(* dict operations, on the item sequence *)
Keys(d) == {d[i][1] : i \in DOMAIN d}
Has(d, k) == \E i \in DOMAIN d : d[i][1] = k
Get(d, k) == d[CHOOSE i \in DOMAIN d : d[i][1] = k][2]
Set(d, k, v) ==
    IF Has(d, k)
    THEN [d EXCEPT ![CHOOSE i \in DOMAIN d : d[i][1] = k] = <<k, v>>]
    ELSE Append(d, <<k, v>>)
Del(d, k) == SelectSeq(d, LAMBDA p : p[1] # k)

RECURSIVE Update(_, _)
Update(d, other) ==
    IF other = <<>> THEN d
    ELSE Update(Set(d, other[1][1], other[1][2]), Tail(other))

---------------------------------------------------------------------------
(* Module constants *)

KEY_INDEX == 0
VALUE_INDEX == 1
LOG_LEVELS == {"alert", "trace", "debug", "notice", "info", "warn",
               "warning", "error", "err", "critical", "crit", "fatal",
               "severe", "emerg", "emergency"}
LOG_LEVELS_IGNORE == {"info"}
PYTHON_EVENT_SIZE == 3
LAMBDA_JS_EVENT_SIZE == 4
NODEJS_EVENT_SIZE == 5
LAMBDA_LOG_GROUP == "/aws/lambda/"

---------------------------------------------------------------------------
(* The texts the model draws its inputs from.  TLC cannot take a string    *)
(* apart, so every text with structure is built here from its pieces and   *)
(* the string functions below recover the pieces by matching.              *)

TAB == "\t"
TIMEOUT_MARK == "Task timed out after"

RECURSIVE Join(_, _)
Join(parts, sep) ==
    IF Len(parts) = 1 THEN parts[1]
    ELSE parts[1] \o sep \o Join(Tail(parts), sep)

\* tab-separated runtime lines, by their parts
TabParts ==
    { <<"2024-01-01T00:00:00Z", "req-123", "INFO", "extra", "actual message">>,
      <<"2024-01-01T00:00:01Z", "req-124", "ERROR", "boom">>,
      <<"2024-01-01T00:00:02Z", "req-125", "python line">>,
      <<"col1", "col2">>,
      <<"2024-01-01T00:00:03Z", "req-126", "WARN", "{\"level\":\"info\"}">> }

\* what follows a housekeeping marker
MarkerTails == {"", " RequestId: r1 Version: $LATEST", " RequestId: r1",
                " Task timed out after 1.00 seconds"}
\* what surrounds a substring that is searched for
Befores == {"", "2024-01-01T00:00:04Z r1 ", "START ", "END ", "REPORT ",
            "INIT_START ", "my "}
Afters == {"", " 3.00 seconds", " 1.00 seconds", "my-fn", " up"}

\* ENRICH settings, by their pairs, and pairs by their sides
SemiParts == { <<"env=prod", "team=core">>, <<"env=prod", "oops">> }
EqParts == { <<"env", "prod">>, <<"team", "core">>, <<"level", "info">>,
             <<"timestamp", "t0">>, <<"data", "x">> }

UpperLower == { <<"INFO", "info">>, <<"ERROR", "error">>, <<"WARN", "warn">>,
                <<"Error", "error">>, <<"Info", "info">>, <<"JSON", "json">>,
                <<"Json", "json">> }

---------------------------------------------------------------------------
(* str methods *)

\* s.lower()
Lower(s) ==
    IF \E p \in UpperLower : p[1] = s
    THEN (CHOOSE p \in UpperLower : p[1] = s)[2]
    ELSE s

\* s.startswith(prefix)
StartsWith(s, prefix) == \E r \in MarkerTails : s = prefix \o r

\* needle in s
Contains(s, needle) == \E a \in Befores, b \in Afters : s = a \o needle \o b

\* s.split(sep): the parts, none holding sep, that joined by sep give s
SplitCandidates(sep) ==
    CASE sep = TAB -> TabParts
      [] sep = ";" -> SemiParts
      [] sep = "=" -> EqParts
      [] OTHER -> {}
Split(s, sep) ==
    IF \E p \in SplitCandidates(sep) : Join(p, sep) = s
    THEN CHOOSE p \in SplitCandidates(sep) : Join(p, sep) = s
    ELSE <<s>>

---------------------------------------------------------------------------
(* json *)

\* the JSON documents a message can hold
JsonDocs ==
    { Dict(<< <<"level", Str("error")>>, <<"code", Num("500")>> >>),
      Dict(<< <<"level", Str("INFO")>> >>),
      Dict(<< <<"level", Str("info")>> >>),
      Dict(<< <<"level", Num("5")>> >>),
      Dict(<< <<"level", Str("verbose")>> >>),
      Dict(<< <<"code", Num("500")>> >>),
      Dict(<< <<"timestamp", Str("t9")>>, <<"level", Str("INFO")>> >>),
      Dict(<< <<"data", List(<<Num("1"), Num("2")>>)>> >>),
      Dict(<< <<"data", Dict(<< <<"a", Num("1")>>,
                                <<"b", Dict(<< <<"c", Num("2")>> >>)>>,
                                <<"message", Str("inner")>> >>)>> >>),
      Dict(<< <<"log_level", Num("5")>>, <<"level", Str("info")>> >>),
      Num("123"), None, Bool("true"),
      Str("my level up"), Str("plain"),
      List(<<Str("level")>>), List(<<Num("1"), Num("2")>>) }

\* the text of a JSON value, with the given item and key separators
RECURSIVE JsonText(_, _, _)
RECURSIVE JsonItems(_, _, _, _)
JsonItems(items, isDict, itemSep, keySep) ==
    IF items = <<>> THEN ""
    ELSE (IF isDict THEN "\"" \o items[1][1] \o "\"" \o keySep ELSE "")
         \o JsonText(items[1][2], itemSep, keySep)
         \o (IF Len(items) > 1 THEN itemSep ELSE "")
         \o JsonItems(Tail(items), isDict, itemSep, keySep)
JsonText(v, itemSep, keySep) ==
    CASE v.t = "str" -> "\"" \o v.s \o "\""
      [] v.t = "dict" -> "{" \o JsonItems(v.f, TRUE, itemSep, keySep) \o "}"
      [] v.t = "list" -> "[" \o JsonItems(v.f, FALSE, itemSep, keySep) \o "]"
      [] OTHER -> v.s

\* the compact text a producer writes into a message
Encode(v) == JsonText(v, ",", ":")

\* json.dumps(v), with Python's default separators
json_dumps(v) == JsonText(v, ", ", ": ")

\* json.loads(s): the document whose text s is, or ValueError
json_loads(s) ==
    IF \E v \in JsonDocs : Encode(v) = s
    THEN [exc |-> "", v |-> CHOOSE v \in JsonDocs : Encode(v) = s]
    ELSE [exc |-> "ValueError", v |-> None]

---------------------------------------------------------------------------
(* lambda_function.py.  A function that can raise returns a record whose   *)
(* exc field names the exception ("" when it returns normally) and whose   *)
(* log field is the dict as the function left it.  Log events carry a text *)
(* message and a timestamp or an @timestamp, as CloudWatch delivers them.  *)

\* str(value) of a scalar
PyStr(v) ==
    CASE v.t = "str" -> v.s
      [] v.t = "num" -> v.s
      [] v.t = "bool" -> IF v.s = "true" THEN "True" ELSE "False"
      [] v.t = "null" -> "None"

\* value.lower(): only str has the method
HasLower(v) == v.t = "str"

_extract_lambda_log_message(log) ==
    LET str_message == PyStr(Get(log, "message"))
        message_parts == Split(str_message, TAB)
        size == Len(message_parts)
        log1 == IF size = PYTHON_EVENT_SIZE \/ size = NODEJS_EVENT_SIZE
                   \/ size = LAMBDA_JS_EVENT_SIZE
                THEN Set(Set(Set(log, "@timestamp", Str(message_parts[1 + 0])),
                             "requestID", Str(message_parts[1 + 1])),
                         "message", Str(message_parts[1 + (size - 1)]))
                ELSE log
    IN  IF size = NODEJS_EVENT_SIZE \/ size = LAMBDA_JS_EVENT_SIZE
        THEN Set(log1, "log_level", Str(Lower(message_parts[1 + 2])))
        ELSE log1

_add_timestamp_KeepsRaw(log) ==
    IF ~Has(log, "@timestamp")
    THEN IF ~Has(log, "timestamp")
         THEN [log |-> log, exc |-> "KeyError"]
         ELSE [log |-> Set(log, "@timestamp", Str(PyStr(Get(log, "timestamp")))),
               exc |-> ""]
    ELSE [log |-> log, exc |-> ""]

_add_timestamp(log) ==
    IF ~Has(log, "@timestamp")
    THEN IF ~Has(log, "timestamp")
         THEN [log |-> log, exc |-> "KeyError"]
         ELSE [log |-> Del(Set(log, "@timestamp", Str(PyStr(Get(log, "timestamp")))),
                           "timestamp"),
               exc |-> ""]
    ELSE [log |-> log, exc |-> ""]

_add_level(log) ==
    IF ~Has(log, "level")
    THEN LET message == Get(log, "message")
         IN  IF Contains(message.s, TIMEOUT_MARK)
             THEN Set(log, "level", Str("error"))
             ELSE log
    ELSE log

MergeItems_FirstOnly(log, items) ==
    IF items = <<>> THEN log
    ELSE Set(log, items[1][1], items[1][2])

\* the loop of lines 75-76: log[key] = value for each item
RECURSIVE MergeItems(_, _)
MergeItems(log, items) ==
    IF items = <<>> THEN log
    ELSE MergeItems(Set(log, items[1][1], items[1][2]), Tail(items))

\* 'level' in json_object, for each type json.loads can return: "yes", "no",
\* or the exception the operator raises
InLevel(json_object) ==
    CASE json_object.t = "dict" -> IF Has(json_object.f, "level") THEN "yes" ELSE "no"
      [] json_object.t = "list" ->
           IF \E i \in DOMAIN json_object.f : json_object.f[i][2] = Str("level")
           THEN "yes" ELSE "no"
      [] json_object.t = "str" -> IF Contains(json_object.s, "level") THEN "yes" ELSE "no"
      [] OTHER -> "TypeError"

_parse_to_json(log, env) ==
    LET loaded == json_loads(Get(log, "message").s)
        json_object == loaded.v
    IN  IF loaded.exc = "ValueError" THEN [log |-> log, exc |-> ""]
        ELSE IF ~Has(env, "FORMAT") THEN [log |-> log, exc |-> ""]
        ELSE IF Lower(Get(env, "FORMAT")) = "json"
        THEN IF json_object.t = "dict"
             THEN [log |-> MergeItems(log, json_object.f), exc |-> ""]
             ELSE [log |-> log, exc |-> "AttributeError"]
        ELSE IF InLevel(json_object) = "TypeError"
             THEN [log |-> log, exc |-> "TypeError"]
        ELSE IF InLevel(json_object) = "no" THEN [log |-> log, exc |-> ""]
        ELSE IF json_object.t # "dict" THEN [log |-> log, exc |-> "TypeError"]
        ELSE LET log_level == Get(json_object.f, "level")
             IN  IF ~HasLower(log_level)
                 THEN [log |-> log, exc |-> "AttributeError"]
                 ELSE IF Lower(log_level.s) \in LOG_LEVELS
                 THEN [log |-> Set(log, "log_level", log_level), exc |-> ""]
                 ELSE [log |-> log, exc |-> ""]

_is_valid_log_StartOnly(log) ==
    LET message == Get(log, "message").s
    IN  ~StartsWith(message, "START")

_is_valid_log(log) ==
    LET message == Get(log, "message").s
        is_info_log == StartsWith(message, "START") \/ StartsWith(message, "END")
                       \/ StartsWith(message, "REPORT")
                       \/ StartsWith(message, "INIT_START")
    IN  ~is_info_log

IgnoreTest_CaseSensitive(log, key) ==
    IF ~Has(log, key) THEN "no"
    ELSE IF ~HasLower(Get(log, key)) THEN "AttributeError"
    ELSE IF Get(log, key).s \in LOG_LEVELS_IGNORE THEN "yes"
    ELSE "no"

\* lines 97-100: the two ignore-list tests
IgnoreTest(log, key) ==
    IF ~Has(log, key) THEN "no"
    ELSE IF ~HasLower(Get(log, key)) THEN "AttributeError"
    ELSE IF Lower(Get(log, key).s) \in LOG_LEVELS_IGNORE THEN "yes"
    ELSE "no"

_parse_cloudwatch_log(log, additional, env) ==
    LET stamped == _add_timestamp(log)
        levelled == _add_level(stamped.log)
        in_lambda == Contains(Get(additional, "logGroup").s, LAMBDA_LOG_GROUP)
        extracted == IF in_lambda THEN _extract_lambda_log_message(levelled)
                     ELSE levelled
        merged == Update(extracted, additional)
        parsed == _parse_to_json(merged, env)
    IN  IF stamped.exc # "" THEN [ret |-> FALSE, log |-> stamped.log, exc |-> stamped.exc]
        ELSE IF in_lambda /\ ~_is_valid_log(levelled)
        THEN [ret |-> FALSE, log |-> levelled, exc |-> ""]
        ELSE IF parsed.exc # "" THEN [ret |-> FALSE, log |-> parsed.log, exc |-> parsed.exc]
        ELSE IF IgnoreTest(parsed.log, "log_level") = "AttributeError"
        THEN [ret |-> FALSE, log |-> parsed.log, exc |-> "AttributeError"]
        ELSE IF IgnoreTest(parsed.log, "log_level") = "yes"
        THEN [ret |-> FALSE, log |-> parsed.log, exc |-> ""]
        ELSE IF IgnoreTest(parsed.log, "level") = "AttributeError"
        THEN [ret |-> FALSE, log |-> parsed.log, exc |-> "AttributeError"]
        ELSE IF IgnoreTest(parsed.log, "level") = "yes"
        THEN [ret |-> FALSE, log |-> parsed.log, exc |-> ""]
        ELSE [ret |-> TRUE, log |-> parsed.log, exc |-> ""]

\* context.<name>: the attribute, or the exception the context object raises
\* for an attribute it does not have (AttributeError for a plain object)
GetAttr(ctx, name) ==
    IF Has(ctx.attrs, name)
    THEN [exc |-> "", v |-> Get(ctx.attrs, name)]
    ELSE [exc |-> ctx.missing, v |-> None]

\* lines 108-112: the try block around the two context attributes
ContextFields(data, ctx) ==
    LET version == GetAttr(ctx, "function_version")
        arn == GetAttr(ctx, "invoked_function_arn")
        data1 == Set(data, "function_version", version.v)
    IN  IF version.exc = "KeyError" THEN [data |-> data, exc |-> ""]
        ELSE IF version.exc # "" THEN [data |-> data, exc |-> version.exc]
        ELSE IF arn.exc = "KeyError" THEN [data |-> data1, exc |-> ""]
        ELSE IF arn.exc # "" THEN [data |-> data1, exc |-> arn.exc]
        ELSE [data |-> Set(data1, "invoked_function_arn", arn.v), exc |-> ""]

\* lines 118-120: the loop over the ENRICH properties
RECURSIVE EnrichEach(_, _)
EnrichEach(data, properties_to_enrich) ==
    IF properties_to_enrich = <<>> THEN [data |-> data, exc |-> ""]
    ELSE LET property_key_value == Split(properties_to_enrich[1], "=")
         IN  IF Len(property_key_value) < 1 + VALUE_INDEX
             THEN [data |-> data, exc |-> "IndexError"]
             ELSE EnrichEach(Set(data, property_key_value[1 + KEY_INDEX],
                                 Str(property_key_value[1 + VALUE_INDEX])),
                             Tail(properties_to_enrich))

\* lines 114-122
EnrichFields(data, env) ==
    IF ~Has(env, "ENRICH") THEN [data |-> data, exc |-> ""]
    ELSE IF Get(env, "ENRICH") = "" THEN [data |-> data, exc |-> ""]
    ELSE EnrichEach(data, Split(Get(env, "ENRICH"), ";"))

\* lines 124-128
TypeField(data, env) ==
    IF Has(env, "TYPE") THEN Set(data, "type", Str(Get(env, "TYPE")))
    ELSE Set(data, "type", Str("logzio_cloudwatch_lambda"))

_get_additional_logs_data(logs_data, ctx, env) ==
    LET additional_fields == <<"logGroup", "logStream", "messageType", "owner">>
        copied == [i \in DOMAIN additional_fields |->
                      <<additional_fields[i], Get(logs_data, additional_fields[i])>>]
        withContext == ContextFields(copied, ctx)
        enriched == EnrichFields(withContext.data, env)
    IN  IF \E i \in DOMAIN additional_fields : ~Has(logs_data, additional_fields[i])
        THEN [data |-> <<>>, exc |-> "KeyError"]
        ELSE IF withContext.exc # "" THEN [data |-> withContext.data, exc |-> withContext.exc]
        ELSE IF enriched.exc # "" THEN [data |-> enriched.data, exc |-> enriched.exc]
        ELSE [data |-> TypeField(enriched.data, env), exc |-> ""]

is_simple_value(value) == value.t \in {"str", "num", "bool"}

\* lines 148-150: promote the simple items of the data dict
RECURSIVE PromoteItems(_, _)
PromoteItems(flattened, items) ==
    IF items = <<>> THEN flattened
    ELSE PromoteItems(IF is_simple_value(items[1][2])
                      THEN Set(flattened, items[1][1], items[1][2])
                      ELSE flattened,
                      Tail(items))

\* lines 143-151: the loop over obj.items()
RECURSIVE FlattenItems(_, _)
FlattenItems(flattened, items) ==
    IF items = <<>> THEN [flattened |-> flattened, exc |-> ""]
    ELSE LET key == items[1][1]
             value == items[1][2]
         IN  IF is_simple_value(value)
             THEN FlattenItems(Set(flattened, key, value), Tail(items))
             ELSE IF key = "data" /\ value.t # "dict"
             THEN [flattened |-> flattened, exc |-> "AttributeError"]
             ELSE FlattenItems(
                      Set(IF key = "data" THEN PromoteItems(flattened, value.f)
                          ELSE flattened,
                          key, Str(json_dumps(value))),
                      Tail(items))

flatten_object(obj) ==
    LET looped == FlattenItems(<<>>, obj)
    IN  IF looped.exc # "" THEN looped
        ELSE [flattened |-> Set(looped.flattened, "logVerstion", Str("v3")), exc |-> ""]

_extract_aws_logs_data_Lenient(ev) ==
    LET event_str == ev.awslogs.data
    IN  IF ~event_str.base64 \/ ~event_str.gzip \/ ~event_str.json
        THEN [exc |-> "",
              v |-> << <<"messageType", Str("")>>, <<"owner", Str("")>>,
                       <<"logGroup", Str("")>>, <<"logStream", Str("")>>,
                       <<"logEvents", Dict(<<>>)>> >>]
        ELSE [exc |-> "", v |-> event_str.doc]

\* base64.b64decode, GzipFile.read and json.loads of the envelope: data names,
\* layer by layer, whether the layer is well formed, and the document inside.
\* binascii.Error and JSONDecodeError are ValueErrors, caught and raised again
\* as ValueError; what gzip raises (BadGzipFile, an OSError) is not caught.
_extract_aws_logs_data(ev) ==
    LET event_str == ev.awslogs.data
    IN  IF ~event_str.base64 THEN [exc |-> "ValueError", v |-> <<>>]
        ELSE IF ~event_str.gzip THEN [exc |-> "OSError", v |-> <<>>]
        ELSE IF ~event_str.json THEN [exc |-> "ValueError", v |-> <<>>]
        ELSE [exc |-> "", v |-> event_str.doc]

---------------------------------------------------------------------------
(* Inputs *)

MaxBatch == 2
MaxFields == 3

BoundedSeq(S, n) == UNION {[1..k -> S] : k \in 0..n}

Event(message, extra) ==
    Dict(<< <<"id", Str("36000000000000000000000000000000000000000000000000000001")>> >>
         \o extra \o << <<"message", Str(message)>> >>)

RawTimestamp == << <<"timestamp", Num("1700000000000")>> >>
SuppliedTimestamp == << <<"@timestamp", Str("2024-01-01T00:00:09Z")>> >>

\* the entries a batch is drawn from; the last one is not a mapping
LogEvents ==
    { Event("hello world", RawTimestamp),
      Event("START" \o " RequestId: r1 Version: $LATEST", RawTimestamp),
      Event("REPORT" \o " RequestId: r1", SuppliedTimestamp),
      Event(Join(<<"2024-01-01T00:00:00Z", "req-123", "INFO", "extra",
                   "actual message">>, TAB), RawTimestamp),
      Event(Encode(Dict(<< <<"level", Str("error")>>, <<"code", Num("500")>> >>)),
            RawTimestamp),
      Event(Encode(Dict(<< <<"timestamp", Str("t9")>>, <<"level", Str("INFO")>> >>)),
            RawTimestamp),
      Event("2024-01-01T00:00:04Z r1 " \o TIMEOUT_MARK \o " 3.00 seconds",
            SuppliedTimestamp \o RawTimestamp),
      Str("not a mapping") }

LogGroups == {LAMBDA_LOG_GROUP \o "my-fn", "/ecs/app"}

Payload(logEvents, logGroup) ==
    << <<"messageType", Str("DATA_MESSAGE")>>,
       <<"owner", Str("123456789012")>>,
       <<"logGroup", Str(logGroup)>>,
       <<"logStream", Str("stream-1")>>,
       <<"subscriptionFilters", List(<<Str("filter-1")>>)>>,
       <<"logEvents", List(logEvents)>> >>

Envelope(base64, gzip, json, doc) ==
    [awslogs |-> [data |-> [base64 |-> base64, gzip |-> gzip, json |-> json,
                            doc |-> doc]]]

Events ==
    { Envelope(TRUE, TRUE, TRUE, Payload(batch, group)) :
        batch \in BoundedSeq(LogEvents, MaxBatch), group \in LogGroups }
    \cup { Envelope(FALSE, FALSE, FALSE, <<>>), Envelope(TRUE, FALSE, FALSE, <<>>),
           Envelope(TRUE, TRUE, FALSE, <<>>) }

FullContext ==
    << <<"function_version", Str("$LATEST")>>,
       <<"invoked_function_arn", Str("arn:aws:lambda:us-east-1:123456789012:function:my-fn")>> >>

Contexts ==
    { [attrs |-> FullContext, missing |-> "AttributeError"],
      [attrs |-> <<>>, missing |-> "AttributeError"],
      [attrs |-> SubSeq(FullContext, 1, 1), missing |-> "KeyError"] }

\* os.environ, as far as the module reads it
Environs ==
    { <<>>,
      << <<"FORMAT", "json">> >>,
      << <<"FORMAT", "text">> >>,
      << <<"FORMAT", "json">>, <<"ENRICH", "timestamp=t0">>, <<"TYPE", "custom_type">> >>,
      << <<"FORMAT", "text">>, <<"ENRICH", "env=prod;team=core">> >>,
      << <<"ENRICH", "env=prod;oops">> >> }

---------------------------------------------------------------------------
(* lambda_handler *)

NoArg == <<>>

Init ==
    /\ pc = "start"
    /\ event \in Events
    /\ context \in Contexts
    /\ environ \in Environs
    /\ aws_logs_data = <<>>
    /\ additional_data = <<>>
    /\ shipper = <<>>
    /\ idx = 0
    /\ returned = <<>>
    /\ raised = ""
    /\ arg = NoArg
    /\ ret = NoArg

Raise(exc) ==
    /\ pc' = "raised"
    /\ raised' = exc

\* line 158
Extract ==
    /\ pc = "start"
    /\ LET r == _extract_aws_logs_data(event)
       IN  IF r.exc # ""
           THEN Raise(r.exc) /\ UNCHANGED aws_logs_data
           ELSE pc' = "decoded" /\ aws_logs_data' = r.v /\ UNCHANGED raised
    /\ UNCHANGED <<event, context, environ, additional_data, shipper, idx,
                   returned, arg, ret>>

\* lines 159-162
Additional ==
    /\ pc = "decoded"
    /\ LET r == _get_additional_logs_data(aws_logs_data, context, environ)
       IN  IF r.exc # ""
           THEN Raise(r.exc) /\ UNCHANGED <<additional_data, idx>>
           ELSE pc' = "loop" /\ additional_data' = r.data /\ idx' = 1
                /\ UNCHANGED raised
    /\ UNCHANGED <<event, context, environ, aws_logs_data, shipper, returned,
                   arg, ret>>

logEvents == Get(aws_logs_data, "logEvents").f

\* line 164: isinstance(log, dict)
IsMapping_Always(log) == TRUE
IsMapping(log) == log.t = "dict"

WithLog(i, log) ==
    Set(aws_logs_data, "logEvents",
        [Get(aws_logs_data, "logEvents") EXCEPT !.f[i] = <<"", Dict(log)>>])

\* lines 163-168: one iteration of the loop; the log is changed in place
Iterate ==
    /\ pc = "loop"
    /\ idx <= Len(logEvents)
    /\ LET log == logEvents[idx][2]
           r == _parse_cloudwatch_log(log.f, additional_data, environ)
           flat == flatten_object(r.log)
       IN  IF ~IsMapping(log)
           THEN Raise("TypeError") /\ UNCHANGED <<aws_logs_data, shipper, idx, returned>>
           ELSE /\ aws_logs_data' = WithLog(idx, r.log)
                /\ IF r.exc # ""
                   THEN Raise(r.exc) /\ UNCHANGED <<shipper, idx, returned>>
                   ELSE IF r.ret /\ flat.exc # ""
                   THEN /\ Raise(flat.exc)
                        /\ returned' = Append(returned, r.ret)
                        /\ UNCHANGED <<shipper, idx>>
                   ELSE /\ shipper' = IF r.ret
                                      THEN Append(shipper, [call |-> "add", log |-> flat.flattened])
                                      ELSE shipper
                        /\ returned' = Append(returned, r.ret)
                        /\ idx' = idx + 1
                        /\ UNCHANGED <<pc, raised>>
    /\ UNCHANGED <<event, context, environ, additional_data, arg, ret>>

Flush_Skipped ==
    /\ pc = "loop"
    /\ idx > Len(logEvents)
    /\ pc' = "done"
    /\ UNCHANGED <<event, context, environ, aws_logs_data, additional_data, idx,
                   shipper, returned, raised, arg, ret>>

\* line 170
Flush ==
    /\ pc = "loop"
    /\ idx > Len(logEvents)
    /\ shipper' = Append(shipper, [call |-> "flush", log |-> <<>>])
    /\ pc' = "done"
    /\ UNCHANGED <<event, context, environ, aws_logs_data, additional_data, idx,
                   returned, raised, arg, ret>>

Next == Extract \/ Additional \/ Iterate \/ Flush

Spec == Init /\ [][Next]_vars

---------------------------------------------------------------------------
(* _parse_to_json and flatten_object called on their own *)

Idle ==
    /\ event = Envelope(FALSE, FALSE, FALSE, <<>>)
    /\ context = [attrs |-> FullContext, missing |-> "AttributeError"]
    /\ aws_logs_data = <<>>
    /\ additional_data = <<>>
    /\ shipper = <<>>
    /\ idx = 0
    /\ returned = <<>>
    /\ raised = ""

JsonMessages == {Encode(v) : v \in JsonDocs} \cup {"hello world", "{\"level\":"}

JsonLogs ==
    { SuppliedTimestamp \o extra \o << <<"message", Str(m)>> >> :
        extra \in { <<>>,
                    << <<"level", Str("Error")>> >>,
                    << <<"log_level", Str("debug")>>, <<"code", Str("old")>> >> },
        m \in JsonMessages }

JsonEnvirons ==
    { <<>>, << <<"FORMAT", "json">> >>, << <<"FORMAT", "JSON">> >>,
      << <<"FORMAT", "text">> >>, << <<"FORMAT", "">> >> }

InitJson ==
    /\ pc = "call"
    /\ arg \in JsonLogs
    /\ environ \in JsonEnvirons
    /\ ret = NoArg
    /\ Idle

CallParseToJson ==
    /\ pc = "call"
    /\ ret' = _parse_to_json(arg, environ)
    /\ pc' = "returned"
    /\ UNCHANGED <<event, context, environ, aws_logs_data, additional_data,
                   shipper, idx, returned, raised, arg>>

NextJson == CallParseToJson

SpecJson == InitJson /\ [][NextJson]_vars

FlattenFields ==
    { <<"message", Str("hi")>>,
      <<"a", Num("7")>>,
      <<"ok", Bool("true")>>,
      <<"logVerstion", Str("v1")>>,
      <<"tags", List(<<Str("x"), Str("y")>>)>>,
      <<"data", Str("x")>>,
      <<"data", List(<<Num("1"), Num("2")>>)>>,
      <<"data", Dict(<< <<"a", Num("1")>>, <<"b", Dict(<< <<"c", Num("2")>> >>)>>,
                        <<"message", Str("inner")>> >>)>>,
      <<"data", Dict(<< <<"n", Num("3")>> >>)>> }

FlattenInputs ==
    { obj \in BoundedSeq(FlattenFields, MaxFields) :
        \A i, j \in DOMAIN obj : obj[i][1] = obj[j][1] => i = j }

InitFlatten ==
    /\ pc = "call"
    /\ arg \in FlattenInputs
    /\ environ = <<>>
    /\ ret = NoArg
    /\ Idle

CallFlatten ==
    /\ pc = "call"
    /\ ret' = flatten_object(arg)
    /\ pc' = "returned"
    /\ UNCHANGED <<event, context, environ, aws_logs_data, additional_data,
                   shipper, idx, returned, raised, arg>>

NextFlatten == CallFlatten

SpecFlatten == InitFlatten /\ [][NextFlatten]_vars

---------------------------------------------------------------------------
(* Properties of lambda_handler, under Spec *)

envelope == event.awslogs.data
DecodeOk == envelope.base64 /\ envelope.gzip /\ envelope.json
\* the batch as it was delivered, and entry i as the handler left it
RawLogEvents == Get(envelope.doc, "logEvents").f
Raw(i) == RawLogEvents[i][2].f
Normalized(i) == logEvents[i][2].f

RECURSIVE KeptUpTo(_)
KeptUpTo(n) ==
    IF n = 0 THEN <<>>
    ELSE IF returned[n] THEN Append(KeptUpTo(n - 1), n) ELSE KeptUpTo(n - 1)
\* the entries _parse_cloudwatch_log returned True for, in batch order
KeptIndexes == KeptUpTo(Len(returned))
AddFor(i) == [call |-> "add", log |-> flatten_object(Normalized(i)).flattened]
AddCalls == SelectSeq(shipper, LAMBDA c : c.call = "add")
AddsAreTheKept ==
    /\ Len(AddCalls) <= Len(KeptIndexes)
    /\ \A j \in DOMAIN AddCalls : AddCalls[j] = AddFor(KeptIndexes[j])

\* C1: a batch processed without a fault leaves, as the Shipper's calls, one
\* add per entry _parse_cloudwatch_log returned True for, in batch order,
\* each with the flattened entry, and then exactly one flush, the last call;
\* before the end there is no flush.
C1_AddsThenOneFlush ==
    /\ pc # "done" => \A j \in DOMAIN shipper : shipper[j].call = "add"
    /\ pc = "done" =>
         /\ Len(returned) = Len(RawLogEvents)
         /\ \A i \in DOMAIN returned :
              returned[i] = _parse_cloudwatch_log(Raw(i), additional_data, environ).ret
         /\ Len(shipper) = Len(KeptIndexes) + 1
         /\ shipper[Len(shipper)] = [call |-> "flush", log |-> <<>>]
         /\ \A j \in DOMAIN KeptIndexes : shipper[j] = AddFor(KeptIndexes[j])

\* a finished batch of two entries, the first dropped and the second kept
C1_Witness ==
    /\ pc = "done"
    /\ Len(returned) = 2
    /\ ~returned[1] /\ returned[2]
    /\ Len(shipper) = 2

\* C2: when base64 decoding, decompression or JSON parsing of the envelope
\* fails, the handler ends with the fault: no entry is processed and the
\* Shipper gets no add and no flush.
C2_DecodeFailureIsFatal ==
    ~DecodeOk =>
        /\ pc \in {"start", "raised"}
        /\ pc = "raised" => raised \in {"ValueError", "OSError"}
        /\ shipper = <<>>
        /\ returned = <<>>
        /\ idx = 0
        /\ aws_logs_data = <<>>

\* the envelope decodes and decompresses, its JSON does not parse
C2_Witness ==
    /\ pc = "raised"
    /\ envelope.base64 /\ envelope.gzip /\ ~envelope.json
    /\ raised = "ValueError"

FirstNonMapping ==
    IF \E i \in DOMAIN RawLogEvents : RawLogEvents[i][2].t # "dict"
    THEN CHOOSE i \in DOMAIN RawLogEvents :
            /\ RawLogEvents[i][2].t # "dict"
            /\ \A j \in 1..(i - 1) : RawLogEvents[j][2].t = "dict"
    ELSE 0

\* C3: at a batch entry that is not a mapping the handler raises TypeError
\* at once: no entry at or after it is processed or added, flush is never
\* called, and the adds made for the earlier kept entries are left as they
\* were.
C3_NonMappingAborts ==
    /\ [](DecodeOk /\ FirstNonMapping # 0 =>
            /\ pc # "done"
            /\ idx <= FirstNonMapping
            /\ Len(returned) < FirstNonMapping
            /\ \A j \in DOMAIN shipper : shipper[j].call = "add"
            /\ AddsAreTheKept
            /\ (pc = "raised" /\ idx = FirstNonMapping) =>
                 /\ raised = "TypeError"
                 /\ Len(AddCalls) = Len(KeptIndexes))
    /\ [][(DecodeOk /\ pc = "loop" /\ idx = FirstNonMapping) =>
            /\ pc' = "raised"
            /\ shipper' = shipper
            /\ returned' = returned]_vars

\* the second entry is not a mapping, the first was kept and added
C3_Witness ==
    /\ pc = "raised"
    /\ raised = "TypeError"
    /\ idx = 2
    /\ FirstNonMapping = 2
    /\ Len(shipper) = 1

LevelIgnored(log) ==
    \E key \in {"log_level", "level"} :
        /\ Has(log, key)
        /\ Get(log, key).t = "str"
        /\ \E ignored \in LOG_LEVELS_IGNORE : Lower(Get(log, key).s) = ignored

\* C4: an entry whose log_level or level, after normalization, is an
\* ignore-listed severity in any letter case is dropped:
\* _parse_cloudwatch_log does not return True for it and it is not among
\* the records added to the Shipper.
C4_IgnoredLevelNeverShipped ==
    /\ \A i \in DOMAIN returned : LevelIgnored(Normalized(i)) => ~returned[i]
    /\ AddsAreTheKept

\* an entry whose level, merged from its JSON message, is "INFO"
C4_Witness ==
    \E i \in DOMAIN returned :
        /\ Has(Normalized(i), "level")
        /\ Get(Normalized(i), "level") = Str("INFO")
        /\ Has(Normalized(i), "logGroup")

InLambdaGroup == Get(envelope.doc, "logGroup").s = LAMBDA_LOG_GROUP \o "my-fn"
Markers == {"START", "END", "REPORT", "INIT_START"}
IsHousekeeping(log) ==
    \E m \in Markers, t \in MarkerTails : Get(log, "message").s = m \o t

\* C5: in a managed-function log group an entry whose message begins with
\* START, END, REPORT or INIT_START is dropped: its message is not split,
\* no metadata or JSON key is merged into it, it is not added, and it never
\* makes the handler raise.
C5_HousekeepingDropped ==
    (DecodeOk /\ InLambdaGroup) =>
        /\ \A i \in DOMAIN returned :
             IsHousekeeping(Raw(i)) =>
                /\ ~returned[i]
                /\ Get(Normalized(i), "message") = Get(Raw(i), "message")
                /\ Keys(Normalized(i)) \subseteq
                       (Keys(Raw(i)) \ {"timestamp"}) \cup {"@timestamp", "level"}
                /\ ~Has(Normalized(i), "requestID")
                /\ \A k \in Keys(additional_data) : ~Has(Normalized(i), k)
        /\ (pc = "raised" /\ idx \in DOMAIN RawLogEvents /\ RawLogEvents[idx][2].t = "dict")
             => ~IsHousekeeping(Raw(idx))
        /\ AddsAreTheKept

\* a REPORT line was processed in the managed-function log group
C5_Witness ==
    /\ DecodeOk /\ InLambdaGroup
    /\ \E i \in DOMAIN returned :
          /\ IsHousekeeping(Raw(i))
          /\ \E t \in MarkerTails : Get(Raw(i), "message").s = "REPORT" \o t

\* C6, as stated: every entry _parse_cloudwatch_log returned for has an
\* @timestamp field and no timestamp field.
C6_NoRawTimestamp ==
    \A i \in DOMAIN returned :
        Has(Normalized(i), "@timestamp") /\ ~Has(Normalized(i), "timestamp")

StructuredMode == Has(environ, "FORMAT") /\ Lower(Get(environ, "FORMAT")) = "json"
MessageCarries(log, key) ==
    \E v \in JsonDocs :
        /\ v.t = "dict" /\ Has(v.f, key)
        /\ Get(log, "message").s = Encode(v)

\* C6, amended: every entry _parse_cloudwatch_log returned for has an
\* @timestamp field; it still has a timestamp field only when the entry came
\* with an @timestamp of its own (its timestamp is then left alone), or the
\* metadata holds a timestamp key, or in structured mode the message's JSON
\* object holds one.
C6_TimestampConsumedUnlessRewritten ==
    \A i \in DOMAIN returned :
        /\ Has(Normalized(i), "@timestamp")
        /\ Has(Normalized(i), "timestamp") =>
              \/ Has(Raw(i), "@timestamp") /\ Has(Raw(i), "timestamp")
              \/ Has(additional_data, "timestamp") /\ Has(Normalized(i), "logGroup")
              \/ StructuredMode /\ MessageCarries(Normalized(i), "timestamp")

\* one entry lost its timestamp to @timestamp, another got a timestamp back
\* from its JSON message
C6_Witness ==
    \E i, j \in DOMAIN returned :
        /\ Has(Raw(i), "timestamp") /\ ~Has(Raw(i), "@timestamp")
        /\ ~Has(Normalized(i), "timestamp")
        /\ Get(Normalized(i), "@timestamp") = Str("1700000000000")
        /\ ~Has(Raw(j), "@timestamp")
        /\ Has(Normalized(j), "timestamp")
        /\ ~Has(additional_data, "timestamp")

\* C7: a context without the function_version or invoked_function_arn
\* attribute does not make the handler fail: past
\* _get_additional_logs_data the metadata holds the four payload fields and
\* the type tag, and not the unavailable attributes.
C7_MissingContextNonFatal ==
    (/\ DecodeOk
     /\ \E a \in {"function_version", "invoked_function_arn"} : ~Has(context.attrs, a)
     /\ pc \notin {"start", "decoded"}
     /\ raised # "IndexError") =>
        /\ {"logGroup", "logStream", "messageType", "owner", "type"}
              \subseteq Keys(additional_data)
        /\ \A a \in {"function_version", "invoked_function_arn"} :
              ~Has(context.attrs, a) => ~Has(additional_data, a)
        /\ pc = "raised" => idx >= 1

---------------------------------------------------------------------------
(* Properties of _parse_to_json, under SpecJson *)

Loaded == json_loads(Get(arg, "message").s)
MessageIsObject == Loaded.exc = "" /\ Loaded.v.t = "dict"
UsableLevel ==
    /\ MessageIsObject
    /\ Has(Loaded.v.f, "level")
    /\ Get(Loaded.v.f, "level").t = "str"
    /\ \E l \in LOG_LEVELS : Lower(Get(Loaded.v.f, "level").s) = l

\* C8: for a message that is not JSON, or is JSON without a usable level
\* (no level key, a level outside LOG_LEVELS, a level that is not a string,
\* a value that is not an object), _parse_to_json raises nothing and leaves
\* the record as it was.  Stated for every case but a JSON object in
\* structured mode, whose keys are merged whatever its level (C9).
C8_UnusableLevelIgnored ==
    (/\ pc = "returned"
     /\ ~UsableLevel
     /\ ~(StructuredMode /\ MessageIsObject)) =>
        /\ ret.exc = ""
        /\ ret.log = arg

AllMerged ==
    \A i \in DOMAIN Loaded.v.f :
        /\ Has(ret.log, Loaded.v.f[i][1])
        /\ Get(ret.log, Loaded.v.f[i][1]) = Loaded.v.f[i][2]

SameAt(key) ==
    /\ Has(ret.log, key) <=> Has(arg, key)
    /\ Has(arg, key) => Get(ret.log, key) = Get(arg, key)

OnlyLogLevel ==
    /\ \A key \in (Keys(arg) \cup Keys(ret.log)) \ {"log_level"} : SameAt(key)
    /\ IF UsableLevel
       THEN Has(ret.log, "log_level")
            /\ Get(ret.log, "log_level") = Get(Loaded.v.f, "level")
       ELSE SameAt("log_level")

\* C9, as stated: for a message that is a JSON object, FORMAT 'json' merges
\* every top-level key with its value into the record, and any other value
\* of FORMAT writes log_level alone, and only from a level in LOG_LEVELS.
C9_FormatIsJsonExactly ==
    (pc = "returned" /\ MessageIsObject /\ Has(environ, "FORMAT")) =>
        IF Get(environ, "FORMAT") = "json" THEN AllMerged ELSE OnlyLogLevel

\* C9, amended: FORMAT is compared in lower case: 'json' in any letter case
\* merges every top-level key with its value, and any other value writes
\* log_level alone, set to the object's level as written when its lower case
\* is in LOG_LEVELS.
C9_FormatLowerCased ==
    (pc = "returned" /\ MessageIsObject /\ Has(environ, "FORMAT")) =>
        IF Lower(Get(environ, "FORMAT")) = "json" THEN AllMerged ELSE OnlyLogLevel

\* {"level":"error","code":500} under FORMAT=JSON: code is merged over the
\* record's own
C9_Witness ==
    /\ pc = "returned"
    /\ environ = << <<"FORMAT", "JSON">> >>
    /\ Get(arg, "message").s = "{\"level\":\"error\",\"code\":500}"
    /\ Has(arg, "code")
    /\ Get(ret.log, "code") = Num("500")
    /\ Get(ret.log, "level") = Str("error")

---------------------------------------------------------------------------
(* Properties of flatten_object, under SpecFlatten *)

IsComposite(v) == v.t \in {"dict", "list", "null"}
flattened == ret.flattened

\* C10: flatten_object returns a mapping of primitives and JSON strings:
\* a primitive field under its key with its value, a composite field under
\* its key as its JSON text, the primitive sub-fields of a composite data
\* field, and only those, as further top-level fields, and
\* logVerstion = 'v3'; a record of primitives comes back unchanged but for
\* the marker.
C10_FlattenFaithful ==
    pc = "returned" =>
        /\ ret.exc = ""
        /\ \A i \in DOMAIN flattened : flattened[i][2].t \in {"str", "num", "bool"}
        /\ \A i \in DOMAIN arg :
              /\ Has(flattened, arg[i][1])
              /\ Get(flattened, arg[i][1]) =
                    IF IsComposite(arg[i][2]) THEN Str(json_dumps(arg[i][2]))
                    ELSE arg[i][2]
        /\ (Has(arg, "data") /\ IsComposite(Get(arg, "data"))) =>
              \A k \in Keys(flattened) \ (Keys(arg) \cup {"logVerstion"}) :
                 /\ Has(Get(arg, "data").f, k)
                 /\ ~IsComposite(Get(Get(arg, "data").f, k))
                 /\ Get(flattened, k) = Get(Get(arg, "data").f, k)
        /\ (Has(arg, "data") /\ IsComposite(Get(arg, "data"))) =>
              \A i \in DOMAIN Get(arg, "data").f :
                 ~IsComposite(Get(arg, "data").f[i][2]) =>
                    /\ Has(flattened, Get(arg, "data").f[i][1])
                    /\ Get(flattened, Get(arg, "data").f[i][1]) = Get(arg, "data").f[i][2]
        /\ ~(Has(arg, "data") /\ IsComposite(Get(arg, "data"))) =>
              Keys(flattened) = Keys(arg) \cup {"logVerstion"}
        /\ Get(flattened, "logVerstion") = Str("v3")
        /\ (\A i \in DOMAIN arg : ~IsComposite(arg[i][2])) =>
              flattened = Append(arg, <<"logVerstion", Str("v3")>>)

====
